---- MODULE Spec2Model ----
(***************************************************************************)
(* The recitation session of src/App.tsx: the start/stop lifecycle, the    *)
(* playback timeline fed by inbound audio fragments, and the transcript    *)
(* accumulation.  src/App.tsx holds two builds of the component (lines     *)
(* 34-401 and lines 456-816); ver selects the build.                       *)
(*                                                                         *)
(* Time is the wall clock now; an AudioContext's currentTime is the wall   *)
(* clock minus the instant the context was constructed.  Date.now() is the *)
(* wall clock.  Strings are sequences of words.  A state update            *)
(* (setMessages(prev => ...)) takes effect in the step that issues it.     *)
(***************************************************************************)
EXTENDS Integers, Sequences, FiniteSets, TLC

\* ---- bounds of the model ------------------------------------------------
\* Sessions is 1..MaxStarts; each specification below bounds the wall clock,
\* the calls of startRecitation that pass the guard, the calls of
\* stopRecitation and the inbound events delivered to onmessage.
MaxStarts == 2
PlayNow == 2
PlayStarts == 1
PlayStops == 1
PlayMsgs == 3
FlushNow == 1
FlushStarts == 2
FlushStops == 1
FlushMsgs == 2
TextNow == 1
TextStarts == 1
TextStops == 1
TextMsgs == 3
LifeNow == 1
LifeStarts == 2
LifeStops == 2
LifeMsgs == 1
CaptureNow == 1
CaptureStarts == 1
CaptureStops == 1
CaptureMsgs == 1
CaptureFrames == 3
AbsorbNow == 1
AbsorbStarts == 1
AbsorbStops == 1
AbsorbMsgs == 3
MarkNow == 1
MarkStarts == 1
MarkStops == 1
MarkMsgs == 3
KeyNow == 1
KeyStarts == 1
KeyStops == 1
KeyMsgs == 1
CodecLen == 3
RestartNow == 1
RestartStarts == 2
RestartStops == 1
RestartMsgs == 1
IdsNow == 1
IdsStarts == 1
IdsStops == 1
IdsMsgs == 4

VARIABLES
  ver,                    \* 1: the build at lines 34-401, 2: the build at lines 456-816
  now,                    \* wall clock
  \* React state
  selectedSurah, appState, messages, error, audioLevel,
  \* refs
  inputAudioContextRef, outputAudioContextRef, nextStartTimeRef, sourcesRef,
  streamRef, currentInputText, currentOutputText,
  \* the platform: audio contexts, microphone streams, sessions, sources
  nStart,                 \* startRecitation calls so far; call s makes contexts s, stream s, session s
  ctxBase,                \* output context -> wall clock at its construction
  openInputs,             \* input contexts not closed
  liveTracks,             \* microphone streams whose tracks are not stopped
  session,                \* session -> "none" | "connecting" | "open" | "failed" | "error" | "closed"
  wired,                  \* session -> input context its onopen wired the capture graph on, NoRef for none
  sched,                  \* every source.start call so far, in call order
  endedSrc,               \* sources that played to their end
  stoppedSrc,             \* sources on which stop() was called
  \* suspended continuations
  gumPending,             \* startRecitation calls awaiting getUserMedia
  stopPending,            \* stopRecitation calls awaiting inputAudioContext.close()
  decodePending,          \* onmessage calls awaiting decodeAudioData
  \* history
  nArr,                   \* events delivered to onmessage
  nStopCalls,             \* stopRecitation calls so far (button and onerror)
  nStopDone,              \* stopRecitation calls that ran to their end
  nIntr,                  \* events with the interrupted flag delivered
  raised,                 \* an arrival moved nextStartTimeRef up to the clock since the last source.start
  flushed,                \* a stopRecitation ran to its end since the last source.start
  textOrder,              \* arrival numbers of the events whose transcript part ran, in run order
  turnArr,                \* user deltas delivered since the last turnComplete was delivered
  tcApplied,              \* per turnComplete handled: the user deltas delivered for its turn
  finalized,              \* [type, text] of the messages that were live when a turnComplete was handled
  stopRejected,           \* a stopRecitation call ended in the rejection of close()
  setupFailure,           \* what made the last start attempt fail: "none" | "microphone" | "context"
  \* the environment and the closures of startRecitation
  apiKey,                 \* process.env.API_KEY || ''
  closureAppState,        \* start -> the appState its callbacks captured ("none" before the start)
  meterArmed,             \* sessions whose updateLevel has a requestAnimationFrame pending
  nVibrate,               \* calls of navigator.vibrate so far
  \* outbound frames
  resolved,               \* sessions whose sessionPromise is fulfilled
  thenQueue,              \* session -> frames whose then-reaction was registered before fulfilment
  sent,                   \* session -> frames handed to sendRealtimeInput, in call order
  nFrames,                \* onaudioprocess calls so far; the call numbered n delivers frame n
  \* the codec, applied on its own
  codecIn, codecText, codecOut, codecStage

uiVars == <<selectedSurah, appState, messages, error, audioLevel>>
textRefs == <<currentInputText, currentOutputText>>
playVars == <<nextStartTimeRef, sourcesRef, sched, endedSrc, stoppedSrc>>
captureVars == <<inputAudioContextRef, streamRef, openInputs, liveTracks, wired>>
histVars == <<nArr, nStopCalls, nStopDone, nIntr, raised, flushed, textOrder, turnArr,
              tcApplied, finalized>>
failVars == <<stopRejected, setupFailure>>
meterVars == <<closureAppState, meterArmed, nVibrate>>
sendVars == <<resolved, thenQueue, sent, nFrames>>
codecVars == <<codecIn, codecText, codecOut, codecStage>>
ioVars == <<apiKey, sendVars, codecVars>>
vars == <<ver, now, selectedSurah, appState, messages, error, audioLevel,
          inputAudioContextRef, outputAudioContextRef, nextStartTimeRef, sourcesRef,
          streamRef, currentInputText, currentOutputText,
          nStart, ctxBase, openInputs, liveTracks, session, wired, sched, endedSrc,
          stoppedSrc, gumPending, stopPending, decodePending,
          nArr, nStopCalls, nStopDone, nIntr, raised, flushed, textOrder, turnArr,
          tcApplied, finalized, stopRejected, setupFailure,
          apiKey, closureAppState, meterArmed, nVibrate,
          resolved, thenQueue, sent, nFrames,
          codecIn, codecText, codecOut, codecStage>>

\* ---- values ---------------------------------------------------------------
Versions == {1, 2}
Sessions == 1..MaxStarts
NoRef == 0                       \* a ref holding null
Levels == {0, 1}                 \* the mean of getByteFrequencyData: silence or signal
SurahIds == {1}

Max(a, b) == IF a >= b THEN a ELSE b
Range(s) == {s[i] : i \in DOMAIN s}

\* AudioContext.currentTime of output context c
currentTime(c) == now - ctxBase[c]

\* String.prototype.includes on word sequences
includes(text, pat) ==
  \E i \in 0..(Len(text) - Len(pat)) :
    \A j \in 1..Len(pat) : text[i + j] = pat[j]

\* ---- inbound events (LiveServerMessage) ------------------------------------
\* audio: 0 when the event carries no inlineData; n > 0 for a well-formed
\* fragment lasting n; BadAudio for a fragment decodeAudioData rejects.
\* inT, outT: the text of inputTranscription / outputTranscription, "" when absent.
BadAudio == -1
InWords == {"a", "b"}
OutWords == {"ok", "tanbih"}
Ev(a, i, o, t, x) == [audio |-> a, inT |-> i, outT |-> o, tc |-> t, intr |-> x]
TextEvents == {Ev(0, w, "", FALSE, FALSE) : w \in InWords}
              \cup {Ev(0, "", w, FALSE, FALSE) : w \in OutWords}
              \cup {Ev(0, "", "", TRUE, FALSE), Ev(1, "a", "", FALSE, FALSE)}
HasText(ev) == ev.inT # "" \/ ev.outT # "" \/ ev.tc

\* decodeAudioData(decode(base64Audio), outCtx, 24000, 1): the buffer's duration,
\* or a rejection for a malformed fragment
decodeAudioDataNoFail(a) == [ok |-> TRUE, duration |-> 1]
decodeAudioData(a) == IF a = BadAudio THEN [ok |-> FALSE, duration |-> 0]
                      ELSE [ok |-> TRUE, duration |-> a]

\* ---- transcript accumulation ----------------------------------------------
\* st = [messages, cin, cout]: the message list and the two accumulators
LiveInput == [kind |-> "live-input", n |-> 0]
LiveOutput == [kind |-> "live-output", n |-> 0]
IsLive(m) == m.id \in {LiveInput, LiveOutput}

\* prev.filter(m => m.id !== id)
filterOutKeepAll(prev, id) == prev
filterOut(prev, id) == SelectSeq(prev, LAMBDA m : m.id # id)

isWarningNever(text) == FALSE
isWarning(text) ==
  IF ver = 1
  THEN includes(text, <<"tanbih">>) \/ includes(text, <<"khata">>)
  ELSE \/ includes(text, <<"tanbih", "tajwid">>)
       \/ includes(text, <<"tanbih", "hifz">>)
       \/ includes(text, <<"khata">>)
isTajweed(text) == ver = 2 /\ includes(text, <<"tanbih", "tajwid">>)

HandleInput(st, ev) ==
  IF ev.inT = "" THEN st
  ELSE LET cin == st.cin \o <<ev.inT>>
       IN [st EXCEPT !.cin = cin,
                     !.messages = Append(filterOut(st.messages, LiveInput),
                        [id |-> LiveInput, type |-> "user", text |-> cin,
                         isError |-> FALSE, isTajweed |-> FALSE])]

HandleOutput(st, ev) ==
  IF ev.outT = "" THEN st
  ELSE LET cout == st.cout \o <<ev.outT>>
       IN [st EXCEPT !.cout = cout,
                     !.messages = Append(filterOut(st.messages, LiveOutput),
                        [id |-> LiveOutput, type |-> "bot", text |-> cout,
                         isError |-> isWarning(cout),
                         isTajweed |-> isTajweed(cout)])]

\* prev.map(m => ...): the live ids become final-input-/final-output-<Date.now()>
finalize(prev) ==
  [i \in DOMAIN prev |->
     IF prev[i].id = LiveInput THEN [prev[i] EXCEPT !.id = [kind |-> "final-input", n |-> now]]
     ELSE IF prev[i].id = LiveOutput
          THEN [prev[i] EXCEPT !.id = [kind |-> "final-output", n |-> now]]
          ELSE prev[i]]

HandleTurnComplete(st, ev) ==
  IF ~ev.tc THEN st
  ELSE [messages |-> IF ver = 1 THEN finalize(st.messages) ELSE st.messages,
        cin |-> <<>>, cout |-> <<>>]

\* ---- initial state ---------------------------------------------------------
\* k: the API key of the environment
InitEnv(k) ==
  /\ apiKey = k
  /\ ver \in Versions
  /\ now = 0
  /\ selectedSurah = NoRef /\ appState = "IDLE" /\ messages = <<>>
  /\ error = "none" /\ audioLevel = 0
  /\ inputAudioContextRef = NoRef /\ outputAudioContextRef = NoRef
  /\ nextStartTimeRef = 0 /\ sourcesRef = {} /\ streamRef = NoRef
  /\ currentInputText = <<>> /\ currentOutputText = <<>>
  /\ nStart = 0 /\ ctxBase = [s \in Sessions |-> 0]
  /\ openInputs = {} /\ liveTracks = {}
  /\ session = [s \in Sessions |-> "none"] /\ wired = [s \in Sessions |-> NoRef]
  /\ sched = <<>> /\ endedSrc = {} /\ stoppedSrc = {}
  /\ gumPending = {} /\ stopPending = 0 /\ decodePending = {}
  /\ nArr = 0 /\ nStopCalls = 0 /\ nStopDone = 0 /\ nIntr = 0
  /\ raised = FALSE /\ flushed = FALSE
  /\ textOrder = <<>> /\ turnArr = <<>> /\ tcApplied = <<>> /\ finalized = {}
  /\ stopRejected = FALSE /\ setupFailure = "none"
  /\ closureAppState = [s \in Sessions |-> "none"] /\ meterArmed = {} /\ nVibrate = 0
  /\ resolved = {} /\ nFrames = 0
  /\ thenQueue = [s \in Sessions |-> <<>>] /\ sent = [s \in Sessions |-> <<>>]
  /\ codecIn = <<>> /\ codecText = <<>> /\ codecOut = <<>> /\ codecStage = "idle"

\* the environment has a key configured
Init == InitEnv("key")

\* the key is configured or missing
ApiKeys == {"", "key"}
InitAnyKey == \E k \in ApiKeys : InitEnv(k)

\* ---- the clock and the user ---------------------------------------------------
Tick ==
  /\ now' = now + 1
  /\ UNCHANGED <<ver, ioVars, meterVars, uiVars, textRefs, playVars, captureVars, outputAudioContextRef,
                 nStart, ctxBase, session, gumPending, stopPending, decodePending,
                 histVars, failVars>>

\* SurahCard onClick; the cards are rendered only while appState is IDLE
SelectSurah(id) ==
  /\ appState = "IDLE"
  /\ selectedSurah' = id
  /\ UNCHANGED <<ver, ioVars, meterVars, now, appState, messages, error, audioLevel, textRefs, playVars,
                 captureVars, outputAudioContextRef, nStart, ctxBase, session,
                 gumPending, stopPending, decodePending, histVars, failVars>>

\* ---- startRecitation ------------------------------------------------------------
\* if (!selectedSurah) return
startGuardNone == TRUE
startGuard == selectedSurah # NoRef

\* the start button is rendered only while appState is IDLE
startButtonRendered == appState = "IDLE"

\* a click on the start button: the run up to await getUserMedia
StartRecitation ==
  /\ startButtonRendered
  /\ IF ~startGuard
     THEN UNCHANGED vars
     ELSE LET s == nStart + 1 IN
          /\ appState' = "PREPARING"
          /\ error' = "none"
          /\ messages' = <<>>
          /\ IF ver = 1
             THEN currentInputText' = <<>> /\ currentOutputText' = <<>>
             ELSE UNCHANGED textRefs
          /\ inputAudioContextRef' = s
          /\ openInputs' = openInputs \cup {s}
          /\ outputAudioContextRef' = s
          /\ ctxBase' = [ctxBase EXCEPT ![s] = now]
          /\ gumPending' = gumPending \cup {s}
          /\ nStart' = s
          /\ closureAppState' = [closureAppState EXCEPT ![s] = appState]
          /\ finalized' = {}
          /\ setupFailure' = "none"
          /\ UNCHANGED <<ver, ioVars, meterArmed, nVibrate, now, selectedSurah, audioLevel, playVars, streamRef,
                         liveTracks, wired, session, stopPending, decodePending,
                         nArr, nStopCalls, nStopDone, nIntr, raised, flushed,
                         textOrder, turnArr, tcApplied, stopRejected>>

\* a click on the start button when new AudioContext throws at the first
\* construction: the resets before it have run, then the catch block
StartRecitationThrows ==
  /\ startButtonRendered
  /\ startGuard
  /\ messages' = <<>>
  /\ IF ver = 1
     THEN currentInputText' = <<>> /\ currentOutputText' = <<>>
     ELSE UNCHANGED textRefs
  /\ error' = "microphone"
  /\ appState' = "IDLE"
  /\ finalized' = {}
  /\ setupFailure' = "context"
  /\ UNCHANGED <<ver, ioVars, meterVars, now, selectedSurah, audioLevel, playVars, captureVars,
                 outputAudioContextRef, nStart, ctxBase, session, gumPending,
                 stopPending, decodePending, nArr, nStopCalls, nStopDone, nIntr,
                 raised, flushed, textOrder, turnArr, tcApplied, stopRejected>>

\* getUserMedia resolves: streamRef is set and ai.live.connect is called
GetUserMediaResolve(s) ==
  /\ s \in gumPending
  /\ gumPending' = gumPending \ {s}
  /\ streamRef' = s
  /\ liveTracks' = liveTracks \cup {s}
  /\ session' = [session EXCEPT ![s] = "connecting"]
  /\ UNCHANGED <<ver, ioVars, meterVars, now, uiVars, textRefs, playVars, inputAudioContextRef,
                 outputAudioContextRef, openInputs, wired, nStart, ctxBase,
                 stopPending, decodePending, histVars, failVars>>

\* the promise of ai.live.connect rejects: it is not awaited, so the catch block
\* does not run and no callback is called
ConnectReject(s) ==
  /\ session[s] = "connecting"
  /\ session' = [session EXCEPT ![s] = "failed"]
  /\ UNCHANGED <<ver, ioVars, meterVars, now, uiVars, textRefs, playVars, captureVars,
                 outputAudioContextRef, nStart, ctxBase, gumPending, stopPending,
                 decodePending, histVars, failVars>>

\* getUserMedia rejects: the catch block
GetUserMediaReject(s) ==
  /\ s \in gumPending
  /\ gumPending' = gumPending \ {s}
  /\ error' = "microphone"
  /\ appState' = "IDLE"
  /\ setupFailure' = "microphone"
  /\ UNCHANGED <<ver, ioVars, meterVars, now, selectedSurah, messages, audioLevel, textRefs, playVars,
                 captureVars, outputAudioContextRef, nStart, ctxBase, session,
                 stopPending, decodePending, histVars, stopRejected>>

\* ---- stopRecitation -------------------------------------------------------------
\* from sourcesRef.current.forEach to the end of stopRecitation
StopRest ==
  /\ stoppedSrc' = stoppedSrc \cup sourcesRef
  /\ sourcesRef' = {}
  /\ appState' = "IDLE"
  /\ audioLevel' = 0
  /\ IF ver = 1
     THEN /\ inputAudioContextRef' = NoRef
          /\ currentInputText' = <<>> /\ currentOutputText' = <<>>
     ELSE UNCHANGED <<inputAudioContextRef, textRefs>>
  /\ nStopDone' = nStopDone + 1
  /\ flushed' = TRUE

StopRestNot ==
  UNCHANGED <<stoppedSrc, sourcesRef, appState, audioLevel, inputAudioContextRef,
              textRefs, nStopDone, flushed>>

\* a call of stopRecitation, up to await inputAudioContextRef.current.close() or,
\* when the ref is null, to the end.  close() on a closed context rejects and
\* the rest of the call never runs.
StopCall ==
  /\ nStopCalls' = nStopCalls + 1
  /\ liveTracks' = IF streamRef # NoRef THEN liveTracks \ {streamRef} ELSE liveTracks
  /\ IF inputAudioContextRef = NoRef
     THEN StopRest /\ UNCHANGED <<openInputs, stopPending, stopRejected>>
     ELSE IF inputAudioContextRef \in openInputs
          THEN /\ openInputs' = openInputs \ {inputAudioContextRef}
               /\ stopPending' = stopPending + 1
               /\ StopRestNot
               /\ UNCHANGED stopRejected
          ELSE /\ StopRestNot
               /\ stopRejected' = TRUE
               /\ UNCHANGED <<openInputs, stopPending>>

\* the stop button, rendered while appState is not IDLE
StopRecitation ==
  /\ appState # "IDLE"
  /\ StopCall
  /\ UNCHANGED <<ver, ioVars, meterVars, now, selectedSurah, messages, error, nextStartTimeRef, sched,
                 endedSrc, streamRef, wired, outputAudioContextRef, nStart, ctxBase,
                 session, gumPending, decodePending, nArr, nIntr, raised, textOrder,
                 turnArr, tcApplied, finalized, setupFailure>>

\* close() resolved: the rest of stopRecitation
StopFinish ==
  /\ stopPending > 0
  /\ stopPending' = stopPending - 1
  /\ StopRest
  /\ UNCHANGED <<ver, ioVars, meterVars, now, selectedSurah, messages, error, nextStartTimeRef, sched,
                 endedSrc, streamRef, openInputs, liveTracks, wired,
                 outputAudioContextRef, nStart, ctxBase, session, gumPending,
                 decodePending, nArr, nStopCalls, nIntr, raised, textOrder, turnArr,
                 tcApplied, finalized, failVars>>

\* ---- the session callbacks -------------------------------------------------------
\* onopen
OnOpen(s) ==
  /\ session[s] = "connecting"
  /\ session' = [session EXCEPT ![s] = "open"]
  /\ appState' = "RECITING"
  \* inputAudioContextRef.current!.createMediaStreamSource throws on a null ref
  /\ wired' = [wired EXCEPT ![s] = inputAudioContextRef]
  \* updateLevel(): returns at once when the appState of its closure is IDLE,
  \* else takes a sample and arms requestAnimationFrame
  /\ IF inputAudioContextRef # NoRef /\ closureAppState[s] # "IDLE"
     THEN /\ meterArmed' = meterArmed \cup {s}
          /\ \E level \in Levels : audioLevel' = level
     ELSE UNCHANGED <<meterArmed, audioLevel>>
  /\ UNCHANGED <<ver, ioVars, closureAppState, nVibrate, now, selectedSurah, messages, error, textRefs,
                 playVars, inputAudioContextRef, streamRef, openInputs, liveTracks,
                 outputAudioContextRef, nStart, ctxBase, gumPending, stopPending,
                 decodePending, histVars, failVars>>

\* nextStartTimeRef.current = Math.max(nextStartTimeRef.current, outCtx.currentTime)
timelineAtArrival(nextStart, clock) == Max(nextStart, clock)

\* nextStartTimeRef.current += audioBuffer.duration
advanceTimelineNot(nextStart, duration) == nextStart
advanceTimeline(nextStart, duration) == nextStart + duration

\* the three transcript branches, run for event number arr whose turn had the
\* user deltas turn delivered
TranscriptStep(ev, arr, turn) ==
  LET st0 == [messages |-> messages, cin |-> currentInputText, cout |-> currentOutputText]
      st1 == HandleOutput(HandleInput(st0, ev), ev)
      st2 == HandleTurnComplete(st1, ev)
  IN /\ messages' = st2.messages
     /\ currentInputText' = st2.cin
     /\ currentOutputText' = st2.cout
     \* if (isWarning && navigator.vibrate) navigator.vibrate(...)
     /\ nVibrate' = IF ev.outT # "" /\ isWarning(st1.cout) THEN nVibrate + 1 ELSE nVibrate
     /\ textOrder' = IF HasText(ev) THEN Append(textOrder, arr) ELSE textOrder
     /\ tcApplied' = IF ev.tc THEN Append(tcApplied, turn) ELSE tcApplied
     /\ finalized' = IF ev.tc
                     THEN finalized \cup {[type |-> m.type, text |-> m.text] :
                                            m \in {x \in Range(st1.messages) : IsLive(x)}}
                     ELSE finalized

\* if (base64Audio)
hasAudioAlways(ev) == TRUE
hasAudio(ev) == ev.audio # 0

\* onmessage, up to await decodeAudioData when the event carries audio and to its
\* end when it does not.  outputAudioContextRef is read when the event arrives.
OnMessage(s, ev) ==
  /\ session[s] = "open"
  /\ nArr' = nArr + 1
  /\ nIntr' = IF ev.intr THEN nIntr + 1 ELSE nIntr
  /\ LET turn == IF ev.inT # "" THEN turnArr \o <<ev.inT>> ELSE turnArr
         outCtx == outputAudioContextRef
     IN /\ turnArr' = IF ev.tc THEN <<>> ELSE turn
        /\ IF hasAudio(ev)
           THEN /\ nextStartTimeRef' = timelineAtArrival(nextStartTimeRef, currentTime(outCtx))
                /\ raised' = (raised \/ nextStartTimeRef < currentTime(outCtx))
                /\ decodePending' = decodePending \cup
                     {[arr |-> nArr + 1, ev |-> ev, ctx |-> outCtx,
                       stops |-> nStopDone, turn |-> turn]}
                /\ UNCHANGED <<messages, textRefs, textOrder, tcApplied, finalized, nVibrate>>
           ELSE /\ TranscriptStep(ev, nArr + 1, turn)
                /\ UNCHANGED <<nextStartTimeRef, raised, decodePending>>
  /\ UNCHANGED <<ver, ioVars, closureAppState, meterArmed, now, selectedSurah, appState, error, audioLevel, sourcesRef, sched,
                 endedSrc, stoppedSrc, captureVars, outputAudioContextRef, nStart,
                 ctxBase, session, gumPending, stopPending, nStopCalls, nStopDone,
                 flushed, failVars>>

\* decodeAudioData settles: the rest of onmessage.  A rejection ends the call.
DecodeResolve(p) ==
  /\ p \in decodePending
  /\ decodePending' = decodePending \ {p}
  /\ LET r == decodeAudioData(p.ev.audio) IN
     IF ~r.ok
     THEN UNCHANGED <<messages, textRefs, textOrder, tcApplied, finalized, nVibrate,
                      nextStartTimeRef, sourcesRef, sched, raised, flushed>>
     ELSE /\ sched' = Append(sched,
                 [arr |-> p.arr, ctx |-> p.ctx, start |-> nextStartTimeRef,
                  dur |-> r.duration, at |-> currentTime(p.ctx),
                  raised |-> raised, afterFlush |-> flushed,
                  stopped |-> p.stops < nStopDone])
          /\ nextStartTimeRef' = advanceTimeline(nextStartTimeRef, r.duration)
          /\ sourcesRef' = sourcesRef \cup {Len(sched) + 1}
          /\ raised' = FALSE
          /\ flushed' = FALSE
          /\ TranscriptStep(p.ev, p.arr, p.turn)
  /\ UNCHANGED <<ver, ioVars, closureAppState, meterArmed, now, selectedSurah, appState, error, audioLevel, endedSrc,
                 stoppedSrc, captureVars, outputAudioContextRef, nStart, ctxBase,
                 session, gumPending, stopPending, nArr, nStopCalls, nStopDone, nIntr,
                 turnArr, failVars>>

\* a source plays to its end; build 1 registered an 'ended' listener that
\* removes it from sourcesRef, build 2 did not
SourceEnded(i) ==
  /\ i \in DOMAIN sched
  /\ i \notin endedSrc \cup stoppedSrc
  /\ currentTime(sched[i].ctx) >= Max(sched[i].start, sched[i].at) + sched[i].dur
  /\ endedSrc' = endedSrc \cup {i}
  /\ sourcesRef' = IF ver = 1 THEN sourcesRef \ {i} ELSE sourcesRef
  /\ UNCHANGED <<ver, ioVars, meterVars, now, uiVars, textRefs, nextStartTimeRef, sched, stoppedSrc,
                 captureVars, outputAudioContextRef, nStart, ctxBase, session,
                 gumPending, stopPending, decodePending, histVars, failVars>>

\* onerror
OnError(s) ==
  /\ session[s] \in {"connecting", "open"}
  /\ session' = [session EXCEPT ![s] = "error"]
  /\ error' = IF ver = 1 THEN "system" ELSE error
  /\ StopCall
  /\ UNCHANGED <<ver, ioVars, meterVars, now, selectedSurah, messages, nextStartTimeRef, sched, endedSrc,
                 streamRef, wired, outputAudioContextRef, nStart, ctxBase, gumPending,
                 decodePending, nArr, nIntr, raised, textOrder, turnArr, tcApplied,
                 finalized, setupFailure>>

\* onclose
OnClose(s) ==
  /\ session[s] \in {"connecting", "open", "error"}
  /\ session' = [session EXCEPT ![s] = "closed"]
  /\ appState' = "IDLE"
  /\ UNCHANGED <<ver, ioVars, meterVars, now, selectedSurah, messages, error, audioLevel, textRefs,
                 playVars, captureVars, outputAudioContextRef, nStart, ctxBase,
                 gumPending, stopPending, decodePending, histVars, failVars>>

\* ---- outbound frames ------------------------------------------------------------
\* sessionPromise.then(session => ...): the reactions registered on a pending
\* promise are kept, and run at fulfilment, in registration order
registerThenFront(queue, frame) == <<frame>> \o queue
registerThen(queue, frame) == Append(queue, frame)

\* scriptProcessor.onaudioprocess: fires while the context the processor was
\* created on is running.  On a fulfilled promise the reaction runs as a
\* microtask, before the next onaudioprocess.
OnAudioProcess(s) ==
  /\ wired[s] # NoRef /\ wired[s] \in openInputs
  /\ nFrames' = nFrames + 1
  /\ IF s \in resolved
     THEN /\ sent' = [sent EXCEPT ![s] = Append(@, nFrames + 1)]
          /\ UNCHANGED thenQueue
     ELSE /\ thenQueue' = [thenQueue EXCEPT ![s] = registerThen(@, nFrames + 1)]
          /\ UNCHANGED sent
  /\ UNCHANGED <<ver, now, uiVars, textRefs, playVars, captureVars,
                 outputAudioContextRef, nStart, ctxBase, session, gumPending,
                 stopPending, decodePending, histVars, failVars, meterVars,
                 apiKey, codecVars, resolved>>

\* ai.live.connect fulfils sessionPromise once the connection is open: the
\* reactions registered so far run
SessionResolve(s) ==
  /\ session[s] = "open"
  /\ s \notin resolved
  /\ resolved' = resolved \cup {s}
  /\ sent' = [sent EXCEPT ![s] = @ \o thenQueue[s]]
  /\ UNCHANGED <<ver, now, uiVars, textRefs, playVars, captureVars,
                 outputAudioContextRef, nStart, ctxBase, session, gumPending,
                 stopPending, decodePending, histVars, failVars, meterVars,
                 apiKey, codecVars, thenQueue, nFrames>>

\* ---- the codec (services/audioUtils) -----------------------------------------------
\* encode: bytes to base64 text, decode: base64 text to bytes.  A text is a
\* sequence of symbols: the 64 digits are 0..63, Pad is the padding symbol.
Pad == 64
CodecBytes == {0, 1, 77, 255}
ByteSeqs == UNION {[1..n -> CodecBytes] : n \in 0..CodecLen}

\* the four symbols of a group of one, two or three bytes
encodeGroupZeroFill(g) ==
  LET b2 == IF Len(g) >= 2 THEN g[2] ELSE 0
      b3 == IF Len(g) >= 3 THEN g[3] ELSE 0
  IN <<g[1] \div 4, (g[1] % 4) * 16 + b2 \div 16, (b2 % 16) * 4 + b3 \div 64, b3 % 64>>
encodeGroup(g) ==
  LET b2 == IF Len(g) >= 2 THEN g[2] ELSE 0
      b3 == IF Len(g) >= 3 THEN g[3] ELSE 0
  IN <<g[1] \div 4,
       (g[1] % 4) * 16 + b2 \div 16,
       IF Len(g) >= 2 THEN (b2 % 16) * 4 + b3 \div 64 ELSE Pad,
       IF Len(g) >= 3 THEN b3 % 64 ELSE Pad>>

RECURSIVE encode(_)
encode(bytes) ==
  IF Len(bytes) = 0 THEN <<>>
  ELSE IF Len(bytes) <= 3 THEN encodeGroup(bytes)
  ELSE encodeGroup(SubSeq(bytes, 1, 3)) \o encode(SubSeq(bytes, 4, Len(bytes)))

\* the one, two or three bytes of a group of four symbols
decodeGroup(q) ==
  IF q[3] = Pad THEN <<q[1] * 4 + q[2] \div 16>>
  ELSE IF q[4] = Pad
       THEN <<q[1] * 4 + q[2] \div 16, (q[2] % 16) * 16 + q[3] \div 4>>
       ELSE <<q[1] * 4 + q[2] \div 16, (q[2] % 16) * 16 + q[3] \div 4,
              (q[3] % 4) * 64 + q[4]>>

RECURSIVE decode(_)
decode(text) ==
  IF Len(text) < 4 THEN <<>>
  ELSE decodeGroup(SubSeq(text, 1, 4)) \o decode(SubSeq(text, 5, Len(text)))

progVars == <<ver, now, uiVars, textRefs, playVars, captureVars, outputAudioContextRef,
              nStart, ctxBase, session, gumPending, stopPending, decodePending,
              histVars, failVars, meterVars, sendVars, apiKey>>

\* the codec applied to a byte sequence: encode, then decode
CodecInput ==
  /\ codecStage = "idle"
  /\ \E bytes \in ByteSeqs : codecIn' = bytes
  /\ codecStage' = "in"
  /\ UNCHANGED <<progVars, codecText, codecOut>>

CodecEncode ==
  /\ codecStage = "in"
  /\ codecText' = encode(codecIn)
  /\ codecStage' = "text"
  /\ UNCHANGED <<progVars, codecIn, codecOut>>

CodecDecode ==
  /\ codecStage = "text"
  /\ codecOut' = decode(codecText)
  /\ codecStage' = "out"
  /\ UNCHANGED <<progVars, codecIn, codecText>>

\* ---- specification ----------------------------------------------------------------
\* E: the inbound events; the four numbers bound the wall clock, the starts, the
\* stops and the events
NextOn(E, maxNow, maxStarts, maxStops, maxMsgs) ==
  \/ now < maxNow /\ Tick
  \/ \E id \in SurahIds : SelectSurah(id)
  \/ nStart < maxStarts /\ StartRecitation
  \/ StartRecitationThrows
  \/ \E s \in Sessions : GetUserMediaResolve(s)
  \/ \E s \in Sessions : ConnectReject(s)
  \/ \E s \in Sessions : GetUserMediaReject(s)
  \/ nStopCalls < maxStops /\ StopRecitation
  \/ StopFinish
  \/ \E s \in Sessions : OnOpen(s)
  \/ \E s \in Sessions, ev \in E : nArr < maxMsgs /\ OnMessage(s, ev)
  \/ \E p \in decodePending : DecodeResolve(p)
  \/ \E i \in DOMAIN sched : SourceEnded(i)
  \/ \E s \in Sessions : OnError(s)
  \/ \E s \in Sessions : OnClose(s)

\* the playback timeline of one session under audio fragments and interruptions
PlayEvents == {Ev(d, "", "", FALSE, FALSE) : d \in {1, 2}} \cup {Ev(0, "", "", FALSE, TRUE)}
NextPlay == NextOn(PlayEvents, PlayNow, PlayStarts, PlayStops, PlayMsgs)
SpecPlay == Init /\ [][NextPlay]_vars

\* the playback timeline across a stop and a second session
FlushEvents == {Ev(d, "", "", FALSE, FALSE) : d \in {1, 2}}
NextFlush == NextOn(FlushEvents, FlushNow, FlushStarts, FlushStops, FlushMsgs)
SpecFlush == Init /\ [][NextFlush]_vars

\* the transcript of one session
NextText == NextOn(TextEvents, TextNow, TextStarts, TextStops, TextMsgs)
SpecText == Init /\ [][NextText]_vars

\* the lifecycle across two starts, with one audio fragment
LifeEvents == {Ev(1, "", "", FALSE, FALSE)}
NextLife == NextOn(LifeEvents, LifeNow, LifeStarts, LifeStops, LifeMsgs)
SpecLife == Init /\ [][NextLife]_vars

\* a session receiving malformed and well-formed fragments
AbsorbEvents == {Ev(BadAudio, "a", "", FALSE, FALSE), Ev(1, "", "", FALSE, FALSE)}
NextAbsorb == NextOn(AbsorbEvents, AbsorbNow, AbsorbStarts, AbsorbStops, AbsorbMsgs)
SpecAbsorb == Init /\ [][NextAbsorb]_vars

\* a session receiving assistant deltas with and without marker words
MarkWords == {"tanbih", "tajwid", "khata"}
MarkEvents == {Ev(0, "", w, FALSE, FALSE) : w \in MarkWords}
              \cup {Ev(0, "", "", TRUE, FALSE), Ev(1, "", "ok", FALSE, FALSE)}
NextMark == NextOn(MarkEvents, MarkNow, MarkStarts, MarkStops, MarkMsgs)
SpecMark == Init /\ [][NextMark]_vars

\* the lifecycle of one start in an environment with or without an API key
NextKey == NextOn(LifeEvents, KeyNow, KeyStarts, KeyStops, KeyMsgs)
SpecKey == InitAnyKey /\ [][NextKey]_vars

\* the codec on its own
NextCodec == CodecInput \/ CodecEncode \/ CodecDecode
SpecCodec == Init /\ [][NextCodec]_vars

\* two starts, the first session receiving a user delta or a fragment
RestartEvents == {Ev(0, "a", "", FALSE, FALSE), Ev(1, "", "", FALSE, FALSE)}
NextRestart == NextOn(RestartEvents, RestartNow, RestartStarts, RestartStops, RestartMsgs)
SpecRestart == Init /\ [][NextRestart]_vars

\* a session of two turns of one user delta each
IdsEvents == {Ev(0, "a", "", FALSE, FALSE), Ev(0, "", "", TRUE, FALSE),
              Ev(1, "", "", FALSE, FALSE)}
NextIds == NextOn(IdsEvents, IdsNow, IdsStarts, IdsStops, IdsMsgs)
SpecIds == Init /\ [][NextIds]_vars

\* the capture path of one session: the lifecycle with the frame callback and
\* the fulfilment of the session promise
NextCapture ==
  \/ NextOn(LifeEvents, CaptureNow, CaptureStarts, CaptureStops, CaptureMsgs)
  \/ \E s \in Sessions : nFrames < CaptureFrames /\ OnAudioProcess(s)
  \/ \E s \in Sessions : SessionResolve(s)
SpecCapture == Init /\ [][NextCapture]_vars

\* ---- the playback timeline -------------------------------------------------------------
\* the timeline end left by the sources scheduled before the k-th
PrevEnd(k) == IF k = 1 THEN 0 ELSE sched[k - 1].start + sched[k - 1].dur

\* C1 as stated: with no flush between two consecutively scheduled sources, the
\* later one starts exactly where the earlier one ends, so the k-th start is
\* the first start plus the durations scheduled before it, for any arrivals.
C1_GapFreeAnyArrival ==
  \A k \in 2..Len(sched) : ~sched[k].afterFlush => sched[k].start = PrevEnd(k)

\* C1 amended: the k-th scheduled source never starts before the end of the
\* (k-1)-th, and starts exactly at that end unless a fragment arrived, since the
\* (k-1)-th was scheduled, when the output clock had passed the timeline end.
C1_GapFree ==
  \A k \in 2..Len(sched) :
    /\ sched[k].start >= PrevEnd(k)
    /\ ~sched[k].raised => sched[k].start = PrevEnd(k)

\* three fragments of unequal durations scheduled back to back, the third
\* handed to source.start before its start time has come
C1_Witness ==
  /\ Len(sched) >= 3
  /\ ~sched[2].raised /\ ~sched[3].raised
  /\ sched[1].dur # sched[2].dur
  /\ sched[3].start = sched[1].start + sched[1].dur + sched[2].dur
  /\ sched[3].at < sched[3].start

\* C2: fragments are scheduled in arrival order: of two scheduled fragments the
\* one whose event was delivered first does not start later than the other.
C2_ArrivalOrder ==
  \A i, j \in DOMAIN sched :
    sched[i].arr < sched[j].arr => sched[i].start <= sched[j].start

\* C3: a decode that was pending while a stopRecitation ran to its end starts
\* no source.
C3_StopCancelsDecode == \A i \in DOMAIN sched : ~sched[i].stopped

\* C4: the step that handles an event with the interrupted flag leaves the
\* active set empty and no timeline end beyond the output clock's current time
\* (the next fragment then starts at the clock's reading).
C4_InterruptedFlushes ==
  [][nIntr' # nIntr =>
       /\ sourcesRef' = {}
       /\ nextStartTimeRef' <= now' - ctxBase'[outputAudioContextRef']]_vars

\* C5: the first fragment enqueued and scheduled after a stopRecitation ran to
\* its end starts at the output clock's current time: not later than the clock
\* reads when source.start is called.
C5_FlushResetsTimeline ==
  \A i \in DOMAIN sched :
    (sched[i].afterFlush /\ ~sched[i].stopped) => sched[i].start <= sched[i].at

\* C6: every source is started at the maximum of the previous source's end and
\* the output clock's reading at the moment source.start is called.
C6_SlotInvariant ==
  \A k \in DOMAIN sched : sched[k].start = Max(PrevEnd(k), sched[k].at)

\* ---- the transcript -----------------------------------------------------------------------
Last(q) == q[Len(q)]
Live(id) == {i \in DOMAIN messages : messages[i].id = id}

\* C7: the transcript parts of the events run in the order the events arrived.
C7_TranscriptOrder ==
  \A i, j \in DOMAIN textOrder : i < j => textOrder[i] < textOrder[j]

\* C8: the step that handles a turnComplete whose turn delivered the user
\* deltas t1..tn (n >= 1), all of them accumulated, adds exactly one finalized
\* user message, its text t1..tn, and leaves no live user message, so that the
\* next user delta opens a new live message.
Finals(ms) == {i \in DOMAIN ms : ms[i].id.kind = "final-input"}
C8_TurnAccumulation ==
  [][(/\ Len(tcApplied') > Len(tcApplied)
      /\ Last(tcApplied') # <<>>
      /\ Last(tcApplied') = currentInputText) =>
       /\ Cardinality(Finals(messages')) = Cardinality(Finals(messages)) + 1
       /\ \E i \in Finals(messages') : /\ messages'[i].type = "user"
                                       /\ messages'[i].text = Last(tcApplied')
       /\ \A i \in DOMAIN messages' : messages'[i].id # LiveInput]_vars

\* C9: a message that was live when a turnComplete was handled stays in the
\* list with its text for the rest of the session.
C9_FinalizedStay ==
  \A f \in finalized :
    \E i \in DOMAIN messages : messages[i].type = f.type /\ messages[i].text = f.text

\* C10: at most one message has the id live-input and at most one the id
\* live-output.
C10_OneLivePerRole ==
  /\ Cardinality(Live(LiveInput)) <= 1
  /\ Cardinality(Live(LiveOutput)) <= 1

\* both live messages present, each after a second delta replaced the first
C10_Witness ==
  /\ \E i \in Live(LiveInput) : Len(messages[i].text) >= 2
  /\ Live(LiveOutput) # {}
  /\ Len(messages) >= 2

\* ---- the lifecycle -----------------------------------------------------------------------
\* C11: no call of stopRecitation ends in a rejection, whether it follows
\* another call (finished or still awaiting close()) or no session at all.
C11_IdempotentStop == ~stopRejected

\* C12: the step in which a stopRecitation runs to its end leaves appState
\* IDLE, the tracks of the microphone stream of the latest start stopped and
\* the active set empty.
C12_StopReleases ==
  [][nStopDone' > nStopDone =>
       /\ appState' = "IDLE"
       /\ nStart \notin liveTracks'
       /\ sourcesRef' = {}]_vars

\* C13: the step in which a stopRecitation runs to its end leaves no session
\* connecting or open (so none delivers an event afterwards).
C13_StopClosesSession ==
  [][nStopDone' > nStopDone =>
       \A s \in Sessions : session'[s] \notin {"connecting", "open"}]_vars

\* C14: every change of appState follows one of the edges IDLE->PREPARING,
\* PREPARING->RECITING, PREPARING->IDLE, RECITING->IDLE, RECITING->ERROR,
\* ERROR->IDLE.
Edges == {<<"IDLE", "PREPARING">>, <<"PREPARING", "RECITING">>,
          <<"PREPARING", "IDLE">>, <<"RECITING", "IDLE">>,
          <<"RECITING", "ERROR">>, <<"ERROR", "IDLE">>}
C14_StateEdges == [][appState' # appState => <<appState, appState'>> \in Edges]_vars

\* C15: while appState is PREPARING a step of the setup is still to come that
\* ends it: getUserMedia is pending, the session is connecting, or a
\* stopRecitation awaits close().
C15_PreparingEnds ==
  appState = "PREPARING" =>
    \/ nStart \in gumPending
    \/ session[nStart] = "connecting"
    \/ stopPending > 0

\* C16: the microphone-permission message is shown only when the setup failed
\* because getUserMedia rejected.
C16_PermissionDistinct == error = "microphone" => setupFailure = "microphone"

C18_OneCapture == Cardinality(liveTracks) <= 1 /\ Cardinality(openInputs) <= 1

\* C19: the step in which onerror fires for the open session while appState is
\* RECITING leaves an error shown and the tracks of the stream in streamRef
\* stopped.
C19_ErrorTornDown ==
  [][(/\ appState = "RECITING"
      /\ \E s \in Sessions : session[s] = "open" /\ session'[s] = "error") =>
       /\ error' # "none"
       /\ streamRef' \notin liveTracks']_vars

\* C20: no source that played to its end is in the active set.
C20_EndedRemoved == sourcesRef \cap endedSrc = {}

\* ---- capture ---------------------------------------------------------------------------
\* C21: the frames of a session reach sendRealtimeInput in capture order, the
\* frames captured before the session promise was fulfilled included.
C21_SendOrder ==
  \A s \in Sessions :
    \A i, j \in DOMAIN sent[s] : i < j => sent[s][i] < sent[s][j]

\* two frames captured before the promise was fulfilled and one after it, all
\* three sent
C21_Witness ==
  /\ 1 \in resolved
  /\ Len(thenQueue[1]) = 2
  /\ Len(sent[1]) = 3

\* C22: while appState is RECITING, the session open and its capture graph on
\* a running context, updateLevel is armed for the next display refresh.
C22_MeterRuns ==
  \A s \in Sessions :
    (appState = "RECITING" /\ session[s] = "open" /\ wired[s] \in openInputs)
      => s \in meterArmed

\* C23: the step in which a stopRecitation runs to its end leaves no
\* updateLevel armed and no frame callback on a running context.
C23_StopHaltsCapture ==
  [][nStopDone' > nStopDone =>
       /\ meterArmed' = {}
       /\ \A s \in Sessions : wired'[s] \notin openInputs']_vars

\* C28: whenever appState is IDLE and no stopRecitation awaits close(), no
\* microphone track is live and no frame callback is on a running context.
C28_IdleReleased ==
  (appState = "IDLE" /\ stopPending = 0) =>
    /\ liveTracks = {}
    /\ \A s \in Sessions : wired[s] \notin openInputs

\* C29: whenever appState is RECITING and no stopRecitation awaits close(), the
\* stream in streamRef has live tracks and the context in inputAudioContextRef
\* is open and carries a frame callback.
C29_ActiveStreams ==
  (appState = "RECITING" /\ stopPending = 0) =>
    /\ streamRef \in liveTracks
    /\ inputAudioContextRef \in openInputs
    /\ \E s \in Sessions : wired[s] = inputAudioContextRef

MarkerTokens ==
  IF ver = 1 THEN {<<"tanbih">>, <<"khata">>}
  ELSE {<<"tanbih", "tajwid">>, <<"tanbih", "hifz">>, <<"khata">>}
HasMarker(text) == \E m \in MarkerTokens : includes(text, m)
C26_KeyRequired == apiKey = "" => \A s \in Sessions : session[s] = "none"

\* ---- the codec ---------------------------------------------------------------------------
\* C27: decode(encode(B)) = B for every byte sequence B.
C27_RoundTrip == codecStage = "out" => codecOut = codecIn

\* a sequence of two bytes, whose text ends in one padding symbol, came back
C27_Witness ==
  /\ codecStage = "out"
  /\ Len(codecIn) = 2 /\ codecIn[1] = 255
  /\ codecText[4] = Pad
  /\ codecOut = codecIn

\* ---- restart ------------------------------------------------------------------------------
\* C30: the step in which startRecitation passes its guard leaves the message
\* list and both transcript accumulators empty.
C30_StartsClean ==
  [][nStart' # nStart =>
       /\ messages' = <<>>
       /\ currentInputText' = <<>>
       /\ currentOutputText' = <<>>]_vars

\* ---- the parts of one event --------------------------------------------------------------
\* C31: when the decode of a fragment fails, the transcript parts of the event
\* that carried it (delta, turnComplete) still run in that step.
C31_PartsIndependent ==
  [][\A p \in decodePending \ decodePending' :
       (p.ev.audio = BadAudio /\ HasText(p.ev)) =>
         textOrder' = Append(textOrder, p.arr)]_vars

\* ---- message ids --------------------------------------------------------------------------
\* C32: no two entries of the message list have the same id.
C32_DistinctIds ==
  \A i, j \in DOMAIN messages : i # j => messages[i].id # messages[j].id

\* ---- the frame of the content events ------------------------------------------------------
\* C33: no step of onmessage (the arrival of an event, the continuation of a
\* decode) changes appState; only events carrying audio await a decode; and
\* the arrival of an event without audio changes neither the timeline end nor
\* the active set.
C33_ContentFrame ==
  [][(nArr' # nArr \/ decodePending' # decodePending) =>
       /\ appState' = appState
       /\ \A p \in decodePending' \ decodePending : p.ev.audio # 0
       /\ (nArr' # nArr /\ decodePending' = decodePending) =>
            UNCHANGED <<nextStartTimeRef, sourcesRef>>]_vars

\* a fragment was scheduled, a delta shown and a turnComplete applied while a
\* source is in the active set, and appState is still RECITING
C33_Witness ==
  /\ appState = "RECITING"
  /\ sourcesRef # {} /\ nextStartTimeRef > 0
  /\ messages # <<>>
  /\ Len(tcApplied) >= 1

====
